---------------------------- MODULE Spec2Model ----------------------------
(***************************************************************************)
(* A model of the hybrid C/Python lexical analyser in src/lexer_no_ai.py:  *)
(* the cursor, the sub-scanners and the dispatch loop of Lexer.tokenize.   *)
(*                                                                         *)
(* A Python str is a sequence of one-character strings; a Lexer object is  *)
(* a record with the fields of Lexer.__init__; a method that mutates self  *)
(* is an operator from a Lexer record to a Lexer record; a while loop is a *)
(* RECURSIVE operator over the loop's variables.                           *)
(***************************************************************************)
EXTENDS Integers, Sequences, FiniteSets, TLC

VARIABLES
    lexer,      \* lexer[i]: the Lexer object i (source, pos, line, column, tokens)
    status,     \* status[i]: where the call lexer[i].tokenize() is: "run", "done", "raised"
    span,       \* span[i][k]: offsets [start, end) the cursor covered for token k (history)
    ws,         \* ws[i]: the offsets consumed by skip_whitespace (history)
    out         \* out[i]: what the consumer of lexer[i].tokenize() produced, if it has run

vars == <<lexer, status, span, ws, out>>

(***************************************************************************)
(* Bounds of the explored inputs.                                          *)
(***************************************************************************)
MaxLen == 4        \* longest source over Sigma
MaxFamLen == 5     \* longest source over the five-character families
MaxKwLen == 4      \* longest source over SigmaKw
MaxPairLen == 3    \* longest source over SigmaPair
MaxUniLen == 3     \* longest source over SigmaUni
MaxLen2 == 2       \* longest source over Sigma2 (two Lexer objects)

(***************************************************************************)
(* Characters.  None is the value current_char/peek_char return at the end *)
(* of the source; TypeError is what a str operation on None produces.      *)
(***************************************************************************)
None == "None"
TypeError == <<"TypeError">>

\* A character up to U+00FF is the one-character string itself.  A character
\* above U+00FF is written by the name of its code point, "U+" and at least
\* four hexadecimal digits.
HexDigit == <<"0", "1", "2", "3", "4", "5", "6", "7", "8", "9", "A", "B", "C", "D", "E", "F">>

RECURSIVE hex(_)
hex(n) == IF n < 16 THEN HexDigit[n + 1] ELSE hex(n \div 16) \o HexDigit[(n % 16) + 1]

char(n) ==
    "U+" \o (IF n < 16 THEN "000" ELSE IF n < 256 THEN "00" ELSE IF n < 4096 THEN "0" ELSE "")
         \o hex(n)

\* The characters whose code points lie in one of the ranges <<first, last>>.
Named(ranges) == {char(n) : n \in UNION {r[1]..r[2] : r \in ranges}}

\* The code point ranges above U+00FF that str.isdigit accepts (Unicode 14.0,
\* the database of CPython 3.11).
DigitRanges == {
    <<1632, 1641>>, <<1776, 1785>>, <<1984, 1993>>, <<2406, 2415>>, <<2534, 2543>>, <<2662, 2671>>,
    <<2790, 2799>>, <<2918, 2927>>, <<3046, 3055>>, <<3174, 3183>>, <<3302, 3311>>, <<3430, 3439>>,
    <<3558, 3567>>, <<3664, 3673>>, <<3792, 3801>>, <<3872, 3881>>, <<4160, 4169>>, <<4240, 4249>>,
    <<4969, 4977>>, <<6112, 6121>>, <<6160, 6169>>, <<6470, 6479>>, <<6608, 6618>>, <<6784, 6793>>,
    <<6800, 6809>>, <<6992, 7001>>, <<7088, 7097>>, <<7232, 7241>>, <<7248, 7257>>, <<8304, 8304>>,
    <<8308, 8313>>, <<8320, 8329>>, <<9312, 9320>>, <<9332, 9340>>, <<9352, 9360>>, <<9450, 9450>>,
    <<9461, 9469>>, <<9471, 9471>>, <<10102, 10110>>, <<10112, 10120>>, <<10122, 10130>>, <<42528, 42537>>,
    <<43216, 43225>>, <<43264, 43273>>, <<43472, 43481>>, <<43504, 43513>>, <<43600, 43609>>, <<44016, 44025>>,
    <<65296, 65305>>, <<66720, 66729>>, <<68160, 68163>>, <<68912, 68921>>, <<69216, 69224>>, <<69714, 69722>>,
    <<69734, 69743>>, <<69872, 69881>>, <<69942, 69951>>, <<70096, 70105>>, <<70384, 70393>>, <<70736, 70745>>,
    <<70864, 70873>>, <<71248, 71257>>, <<71360, 71369>>, <<71472, 71481>>, <<71904, 71913>>, <<72016, 72025>>,
    <<72784, 72793>>, <<73040, 73049>>, <<73120, 73129>>, <<92768, 92777>>, <<92864, 92873>>, <<93008, 93017>>,
    <<120782, 120831>>, <<123200, 123209>>, <<123632, 123641>>, <<125264, 125273>>, <<127232, 127242>>, <<130032, 130041>>
}
\* The code point ranges above U+00FF that str.isalpha accepts.
LetterRanges == {
    <<256, 705>>, <<710, 721>>, <<736, 740>>, <<748, 748>>, <<750, 750>>, <<880, 884>>,
    <<886, 887>>, <<890, 893>>, <<895, 895>>, <<902, 902>>, <<904, 906>>, <<908, 908>>,
    <<910, 929>>, <<931, 1013>>, <<1015, 1153>>, <<1162, 1327>>, <<1329, 1366>>, <<1369, 1369>>,
    <<1376, 1416>>, <<1488, 1514>>, <<1519, 1522>>, <<1568, 1610>>, <<1646, 1647>>, <<1649, 1747>>,
    <<1749, 1749>>, <<1765, 1766>>, <<1774, 1775>>, <<1786, 1788>>, <<1791, 1791>>, <<1808, 1808>>,
    <<1810, 1839>>, <<1869, 1957>>, <<1969, 1969>>, <<1994, 2026>>, <<2036, 2037>>, <<2042, 2042>>,
    <<2048, 2069>>, <<2074, 2074>>, <<2084, 2084>>, <<2088, 2088>>, <<2112, 2136>>, <<2144, 2154>>,
    <<2160, 2183>>, <<2185, 2190>>, <<2208, 2249>>, <<2308, 2361>>, <<2365, 2365>>, <<2384, 2384>>,
    <<2392, 2401>>, <<2417, 2432>>, <<2437, 2444>>, <<2447, 2448>>, <<2451, 2472>>, <<2474, 2480>>,
    <<2482, 2482>>, <<2486, 2489>>, <<2493, 2493>>, <<2510, 2510>>, <<2524, 2525>>, <<2527, 2529>>,
    <<2544, 2545>>, <<2556, 2556>>, <<2565, 2570>>, <<2575, 2576>>, <<2579, 2600>>, <<2602, 2608>>,
    <<2610, 2611>>, <<2613, 2614>>, <<2616, 2617>>, <<2649, 2652>>, <<2654, 2654>>, <<2674, 2676>>,
    <<2693, 2701>>, <<2703, 2705>>, <<2707, 2728>>, <<2730, 2736>>, <<2738, 2739>>, <<2741, 2745>>,
    <<2749, 2749>>, <<2768, 2768>>, <<2784, 2785>>, <<2809, 2809>>, <<2821, 2828>>, <<2831, 2832>>,
    <<2835, 2856>>, <<2858, 2864>>, <<2866, 2867>>, <<2869, 2873>>, <<2877, 2877>>, <<2908, 2909>>,
    <<2911, 2913>>, <<2929, 2929>>, <<2947, 2947>>, <<2949, 2954>>, <<2958, 2960>>, <<2962, 2965>>,
    <<2969, 2970>>, <<2972, 2972>>, <<2974, 2975>>, <<2979, 2980>>, <<2984, 2986>>, <<2990, 3001>>,
    <<3024, 3024>>, <<3077, 3084>>, <<3086, 3088>>, <<3090, 3112>>, <<3114, 3129>>, <<3133, 3133>>,
    <<3160, 3162>>, <<3165, 3165>>, <<3168, 3169>>, <<3200, 3200>>, <<3205, 3212>>, <<3214, 3216>>,
    <<3218, 3240>>, <<3242, 3251>>, <<3253, 3257>>, <<3261, 3261>>, <<3293, 3294>>, <<3296, 3297>>,
    <<3313, 3314>>, <<3332, 3340>>, <<3342, 3344>>, <<3346, 3386>>, <<3389, 3389>>, <<3406, 3406>>,
    <<3412, 3414>>, <<3423, 3425>>, <<3450, 3455>>, <<3461, 3478>>, <<3482, 3505>>, <<3507, 3515>>,
    <<3517, 3517>>, <<3520, 3526>>, <<3585, 3632>>, <<3634, 3635>>, <<3648, 3654>>, <<3713, 3714>>,
    <<3716, 3716>>, <<3718, 3722>>, <<3724, 3747>>, <<3749, 3749>>, <<3751, 3760>>, <<3762, 3763>>,
    <<3773, 3773>>, <<3776, 3780>>, <<3782, 3782>>, <<3804, 3807>>, <<3840, 3840>>, <<3904, 3911>>,
    <<3913, 3948>>, <<3976, 3980>>, <<4096, 4138>>, <<4159, 4159>>, <<4176, 4181>>, <<4186, 4189>>,
    <<4193, 4193>>, <<4197, 4198>>, <<4206, 4208>>, <<4213, 4225>>, <<4238, 4238>>, <<4256, 4293>>,
    <<4295, 4295>>, <<4301, 4301>>, <<4304, 4346>>, <<4348, 4680>>, <<4682, 4685>>, <<4688, 4694>>,
    <<4696, 4696>>, <<4698, 4701>>, <<4704, 4744>>, <<4746, 4749>>, <<4752, 4784>>, <<4786, 4789>>,
    <<4792, 4798>>, <<4800, 4800>>, <<4802, 4805>>, <<4808, 4822>>, <<4824, 4880>>, <<4882, 4885>>,
    <<4888, 4954>>, <<4992, 5007>>, <<5024, 5109>>, <<5112, 5117>>, <<5121, 5740>>, <<5743, 5759>>,
    <<5761, 5786>>, <<5792, 5866>>, <<5873, 5880>>, <<5888, 5905>>, <<5919, 5937>>, <<5952, 5969>>,
    <<5984, 5996>>, <<5998, 6000>>, <<6016, 6067>>, <<6103, 6103>>, <<6108, 6108>>, <<6176, 6264>>,
    <<6272, 6276>>, <<6279, 6312>>, <<6314, 6314>>, <<6320, 6389>>, <<6400, 6430>>, <<6480, 6509>>,
    <<6512, 6516>>, <<6528, 6571>>, <<6576, 6601>>, <<6656, 6678>>, <<6688, 6740>>, <<6823, 6823>>,
    <<6917, 6963>>, <<6981, 6988>>, <<7043, 7072>>, <<7086, 7087>>, <<7098, 7141>>, <<7168, 7203>>,
    <<7245, 7247>>, <<7258, 7293>>, <<7296, 7304>>, <<7312, 7354>>, <<7357, 7359>>, <<7401, 7404>>,
    <<7406, 7411>>, <<7413, 7414>>, <<7418, 7418>>, <<7424, 7615>>, <<7680, 7957>>, <<7960, 7965>>,
    <<7968, 8005>>, <<8008, 8013>>, <<8016, 8023>>, <<8025, 8025>>, <<8027, 8027>>, <<8029, 8029>>,
    <<8031, 8061>>, <<8064, 8116>>, <<8118, 8124>>, <<8126, 8126>>, <<8130, 8132>>, <<8134, 8140>>,
    <<8144, 8147>>, <<8150, 8155>>, <<8160, 8172>>, <<8178, 8180>>, <<8182, 8188>>, <<8305, 8305>>,
    <<8319, 8319>>, <<8336, 8348>>, <<8450, 8450>>, <<8455, 8455>>, <<8458, 8467>>, <<8469, 8469>>,
    <<8473, 8477>>, <<8484, 8484>>, <<8486, 8486>>, <<8488, 8488>>, <<8490, 8493>>, <<8495, 8505>>,
    <<8508, 8511>>, <<8517, 8521>>, <<8526, 8526>>, <<8579, 8580>>, <<11264, 11492>>, <<11499, 11502>>,
    <<11506, 11507>>, <<11520, 11557>>, <<11559, 11559>>, <<11565, 11565>>, <<11568, 11623>>, <<11631, 11631>>,
    <<11648, 11670>>, <<11680, 11686>>, <<11688, 11694>>, <<11696, 11702>>, <<11704, 11710>>, <<11712, 11718>>,
    <<11720, 11726>>, <<11728, 11734>>, <<11736, 11742>>, <<11823, 11823>>, <<12293, 12294>>, <<12337, 12341>>,
    <<12347, 12348>>, <<12353, 12438>>, <<12445, 12447>>, <<12449, 12538>>, <<12540, 12543>>, <<12549, 12591>>,
    <<12593, 12686>>, <<12704, 12735>>, <<12784, 12799>>, <<13312, 19903>>, <<19968, 42124>>, <<42192, 42237>>,
    <<42240, 42508>>, <<42512, 42527>>, <<42538, 42539>>, <<42560, 42606>>, <<42623, 42653>>, <<42656, 42725>>,
    <<42775, 42783>>, <<42786, 42888>>, <<42891, 42954>>, <<42960, 42961>>, <<42963, 42963>>, <<42965, 42969>>,
    <<42994, 43009>>, <<43011, 43013>>, <<43015, 43018>>, <<43020, 43042>>, <<43072, 43123>>, <<43138, 43187>>,
    <<43250, 43255>>, <<43259, 43259>>, <<43261, 43262>>, <<43274, 43301>>, <<43312, 43334>>, <<43360, 43388>>,
    <<43396, 43442>>, <<43471, 43471>>, <<43488, 43492>>, <<43494, 43503>>, <<43514, 43518>>, <<43520, 43560>>,
    <<43584, 43586>>, <<43588, 43595>>, <<43616, 43638>>, <<43642, 43642>>, <<43646, 43695>>, <<43697, 43697>>,
    <<43701, 43702>>, <<43705, 43709>>, <<43712, 43712>>, <<43714, 43714>>, <<43739, 43741>>, <<43744, 43754>>,
    <<43762, 43764>>, <<43777, 43782>>, <<43785, 43790>>, <<43793, 43798>>, <<43808, 43814>>, <<43816, 43822>>,
    <<43824, 43866>>, <<43868, 43881>>, <<43888, 44002>>, <<44032, 55203>>, <<55216, 55238>>, <<55243, 55291>>,
    <<63744, 64109>>, <<64112, 64217>>, <<64256, 64262>>, <<64275, 64279>>, <<64285, 64285>>, <<64287, 64296>>,
    <<64298, 64310>>, <<64312, 64316>>, <<64318, 64318>>, <<64320, 64321>>, <<64323, 64324>>, <<64326, 64433>>,
    <<64467, 64829>>, <<64848, 64911>>, <<64914, 64967>>, <<65008, 65019>>, <<65136, 65140>>, <<65142, 65276>>,
    <<65313, 65338>>, <<65345, 65370>>, <<65382, 65470>>, <<65474, 65479>>, <<65482, 65487>>, <<65490, 65495>>,
    <<65498, 65500>>, <<65536, 65547>>, <<65549, 65574>>, <<65576, 65594>>, <<65596, 65597>>, <<65599, 65613>>,
    <<65616, 65629>>, <<65664, 65786>>, <<66176, 66204>>, <<66208, 66256>>, <<66304, 66335>>, <<66349, 66368>>,
    <<66370, 66377>>, <<66384, 66421>>, <<66432, 66461>>, <<66464, 66499>>, <<66504, 66511>>, <<66560, 66717>>,
    <<66736, 66771>>, <<66776, 66811>>, <<66816, 66855>>, <<66864, 66915>>, <<66928, 66938>>, <<66940, 66954>>,
    <<66956, 66962>>, <<66964, 66965>>, <<66967, 66977>>, <<66979, 66993>>, <<66995, 67001>>, <<67003, 67004>>,
    <<67072, 67382>>, <<67392, 67413>>, <<67424, 67431>>, <<67456, 67461>>, <<67463, 67504>>, <<67506, 67514>>,
    <<67584, 67589>>, <<67592, 67592>>, <<67594, 67637>>, <<67639, 67640>>, <<67644, 67644>>, <<67647, 67669>>,
    <<67680, 67702>>, <<67712, 67742>>, <<67808, 67826>>, <<67828, 67829>>, <<67840, 67861>>, <<67872, 67897>>,
    <<67968, 68023>>, <<68030, 68031>>, <<68096, 68096>>, <<68112, 68115>>, <<68117, 68119>>, <<68121, 68149>>,
    <<68192, 68220>>, <<68224, 68252>>, <<68288, 68295>>, <<68297, 68324>>, <<68352, 68405>>, <<68416, 68437>>,
    <<68448, 68466>>, <<68480, 68497>>, <<68608, 68680>>, <<68736, 68786>>, <<68800, 68850>>, <<68864, 68899>>,
    <<69248, 69289>>, <<69296, 69297>>, <<69376, 69404>>, <<69415, 69415>>, <<69424, 69445>>, <<69488, 69505>>,
    <<69552, 69572>>, <<69600, 69622>>, <<69635, 69687>>, <<69745, 69746>>, <<69749, 69749>>, <<69763, 69807>>,
    <<69840, 69864>>, <<69891, 69926>>, <<69956, 69956>>, <<69959, 69959>>, <<69968, 70002>>, <<70006, 70006>>,
    <<70019, 70066>>, <<70081, 70084>>, <<70106, 70106>>, <<70108, 70108>>, <<70144, 70161>>, <<70163, 70187>>,
    <<70272, 70278>>, <<70280, 70280>>, <<70282, 70285>>, <<70287, 70301>>, <<70303, 70312>>, <<70320, 70366>>,
    <<70405, 70412>>, <<70415, 70416>>, <<70419, 70440>>, <<70442, 70448>>, <<70450, 70451>>, <<70453, 70457>>,
    <<70461, 70461>>, <<70480, 70480>>, <<70493, 70497>>, <<70656, 70708>>, <<70727, 70730>>, <<70751, 70753>>,
    <<70784, 70831>>, <<70852, 70853>>, <<70855, 70855>>, <<71040, 71086>>, <<71128, 71131>>, <<71168, 71215>>,
    <<71236, 71236>>, <<71296, 71338>>, <<71352, 71352>>, <<71424, 71450>>, <<71488, 71494>>, <<71680, 71723>>,
    <<71840, 71903>>, <<71935, 71942>>, <<71945, 71945>>, <<71948, 71955>>, <<71957, 71958>>, <<71960, 71983>>,
    <<71999, 71999>>, <<72001, 72001>>, <<72096, 72103>>, <<72106, 72144>>, <<72161, 72161>>, <<72163, 72163>>,
    <<72192, 72192>>, <<72203, 72242>>, <<72250, 72250>>, <<72272, 72272>>, <<72284, 72329>>, <<72349, 72349>>,
    <<72368, 72440>>, <<72704, 72712>>, <<72714, 72750>>, <<72768, 72768>>, <<72818, 72847>>, <<72960, 72966>>,
    <<72968, 72969>>, <<72971, 73008>>, <<73030, 73030>>, <<73056, 73061>>, <<73063, 73064>>, <<73066, 73097>>,
    <<73112, 73112>>, <<73440, 73458>>, <<73648, 73648>>, <<73728, 74649>>, <<74880, 75075>>, <<77712, 77808>>,
    <<77824, 78894>>, <<82944, 83526>>, <<92160, 92728>>, <<92736, 92766>>, <<92784, 92862>>, <<92880, 92909>>,
    <<92928, 92975>>, <<92992, 92995>>, <<93027, 93047>>, <<93053, 93071>>, <<93760, 93823>>, <<93952, 94026>>,
    <<94032, 94032>>, <<94099, 94111>>, <<94176, 94177>>, <<94179, 94179>>, <<94208, 100343>>, <<100352, 101589>>,
    <<101632, 101640>>, <<110576, 110579>>, <<110581, 110587>>, <<110589, 110590>>, <<110592, 110882>>, <<110928, 110930>>,
    <<110948, 110951>>, <<110960, 111355>>, <<113664, 113770>>, <<113776, 113788>>, <<113792, 113800>>, <<113808, 113817>>,
    <<119808, 119892>>, <<119894, 119964>>, <<119966, 119967>>, <<119970, 119970>>, <<119973, 119974>>, <<119977, 119980>>,
    <<119982, 119993>>, <<119995, 119995>>, <<119997, 120003>>, <<120005, 120069>>, <<120071, 120074>>, <<120077, 120084>>,
    <<120086, 120092>>, <<120094, 120121>>, <<120123, 120126>>, <<120128, 120132>>, <<120134, 120134>>, <<120138, 120144>>,
    <<120146, 120485>>, <<120488, 120512>>, <<120514, 120538>>, <<120540, 120570>>, <<120572, 120596>>, <<120598, 120628>>,
    <<120630, 120654>>, <<120656, 120686>>, <<120688, 120712>>, <<120714, 120744>>, <<120746, 120770>>, <<120772, 120779>>,
    <<122624, 122654>>, <<123136, 123180>>, <<123191, 123197>>, <<123214, 123214>>, <<123536, 123565>>, <<123584, 123627>>,
    <<124896, 124902>>, <<124904, 124907>>, <<124909, 124910>>, <<124912, 124926>>, <<124928, 125124>>, <<125184, 125251>>,
    <<125259, 125259>>, <<126464, 126467>>, <<126469, 126495>>, <<126497, 126498>>, <<126500, 126500>>, <<126503, 126503>>,
    <<126505, 126514>>, <<126516, 126519>>, <<126521, 126521>>, <<126523, 126523>>, <<126530, 126530>>, <<126535, 126535>>,
    <<126537, 126537>>, <<126539, 126539>>, <<126541, 126543>>, <<126545, 126546>>, <<126548, 126548>>, <<126551, 126551>>,
    <<126553, 126553>>, <<126555, 126555>>, <<126557, 126557>>, <<126559, 126559>>, <<126561, 126562>>, <<126564, 126564>>,
    <<126567, 126570>>, <<126572, 126578>>, <<126580, 126583>>, <<126585, 126588>>, <<126590, 126590>>, <<126592, 126601>>,
    <<126603, 126619>>, <<126625, 126627>>, <<126629, 126633>>, <<126635, 126651>>, <<131072, 173791>>, <<173824, 177976>>,
    <<177984, 178205>>, <<178208, 183969>>, <<183984, 191456>>, <<194560, 195101>>, <<196608, 201546>>
}
\* The code point ranges above U+00FF of the characters that str.isnumeric
\* accepts and str.isdigit and str.isalpha do not.
NumericRanges == {
    <<2548, 2553>>, <<2930, 2935>>, <<3056, 3058>>, <<3192, 3198>>, <<3416, 3422>>, <<3440, 3448>>,
    <<3882, 3891>>, <<4978, 4988>>, <<5870, 5872>>, <<6128, 6137>>, <<8528, 8578>>, <<8581, 8585>>,
    <<9321, 9331>>, <<9341, 9351>>, <<9361, 9371>>, <<9451, 9460>>, <<9470, 9470>>, <<10111, 10111>>,
    <<10121, 10121>>, <<10131, 10131>>, <<11517, 11517>>, <<12295, 12295>>, <<12321, 12329>>, <<12344, 12346>>,
    <<12690, 12693>>, <<12832, 12841>>, <<12872, 12879>>, <<12881, 12895>>, <<12928, 12937>>, <<12977, 12991>>,
    <<42726, 42735>>, <<43056, 43061>>, <<65799, 65843>>, <<65856, 65912>>, <<65930, 65931>>, <<66273, 66299>>,
    <<66336, 66339>>, <<66369, 66369>>, <<66378, 66378>>, <<66513, 66517>>, <<67672, 67679>>, <<67705, 67711>>,
    <<67751, 67759>>, <<67835, 67839>>, <<67862, 67867>>, <<68028, 68029>>, <<68032, 68047>>, <<68050, 68095>>,
    <<68164, 68168>>, <<68221, 68222>>, <<68253, 68255>>, <<68331, 68335>>, <<68440, 68447>>, <<68472, 68479>>,
    <<68521, 68527>>, <<68858, 68863>>, <<69225, 69246>>, <<69405, 69414>>, <<69457, 69460>>, <<69573, 69579>>,
    <<69723, 69733>>, <<70113, 70132>>, <<71482, 71483>>, <<71914, 71922>>, <<72794, 72812>>, <<73664, 73684>>,
    <<74752, 74862>>, <<93019, 93025>>, <<93824, 93846>>, <<119520, 119539>>, <<119648, 119672>>, <<125127, 125135>>,
    <<126065, 126123>>, <<126125, 126127>>, <<126129, 126132>>, <<126209, 126253>>, <<126255, 126269>>, <<127243, 127244>>
}

\* The characters str.isdigit accepts: the decimal digits, the superscript
\* digits of Latin-1 and the other Unicode digits.
Digits ==
    {"0", "1", "2", "3", "4", "5", "6", "7", "8", "9", "²", "³", "¹"} \cup Named(DigitRanges)

\* The characters str.isalpha accepts: the Unicode letters.
Letters ==
    {"a", "b", "c", "d", "e", "f", "g", "h", "i", "j", "k", "l", "m",
     "n", "o", "p", "q", "r", "s", "t", "u", "v", "w", "x", "y", "z",
     "A", "B", "C", "D", "E", "F", "G", "H", "I", "J", "K", "L", "M",
     "N", "O", "P", "Q", "R", "S", "T", "U", "V", "W", "X", "Y", "Z",
     "ª", "µ", "º", "À", "Á", "Â", "Ã", "Ä", "Å", "Æ", "Ç", "È", "É",
     "Ê", "Ë", "Ì", "Í", "Î", "Ï", "Ð", "Ñ", "Ò", "Ó", "Ô", "Õ", "Ö",
     "Ø", "Ù", "Ú", "Û", "Ü", "Ý", "Þ", "ß", "à", "á", "â", "ã", "ä",
     "å", "æ", "ç", "è", "é", "ê", "ë", "ì", "í", "î", "ï", "ð", "ñ",
     "ò", "ó", "ô", "õ", "ö", "ø", "ù", "ú", "û", "ü", "ý", "þ", "ÿ"}
        \cup Named(LetterRanges)

\* The characters str.isnumeric accepts that are neither digits nor letters:
\* the fractions of Latin-1 and the other Unicode numerics.
Numerics == {"¼", "½", "¾"} \cup Named(NumericRanges)

isdigit(c) == c \in Digits
isalpha(c) == c \in Letters
\* str.isalnum: isalpha, isdecimal, isdigit or isnumeric.
isalnum(c) == isalpha(c) \/ isdigit(c) \/ c \in Numerics

KEYWORD == {
    <<"a","u","t","o">>, <<"b","r","e","a","k">>, <<"c","a","s","e">>, <<"c","h","a","r">>,
    <<"c","o","n","s","t">>, <<"c","o","n","t","i","n","u","e">>, <<"d","e","f","a","u","l","t">>,
    <<"d","o">>, <<"d","o","u","b","l","e">>, <<"e","l","s","e">>, <<"e","n","u","m">>,
    <<"e","x","t","e","r","n">>, <<"f","l","o","a","t">>, <<"f","o","r">>, <<"g","o","t","o">>,
    <<"i","f">>, <<"i","n","t">>, <<"l","o","n","g">>, <<"r","e","g","i","s","t","e","r">>,
    <<"r","e","t","u","r","n">>, <<"s","h","o","r","t">>, <<"s","i","g","n","e","d">>,
    <<"s","i","z","e","o","f">>, <<"s","t","a","t","i","c">>, <<"s","t","r","u","c","t">>,
    <<"s","w","i","t","c","h">>, <<"t","y","p","e","d","e","f">>, <<"u","n","i","o","n">>,
    <<"u","n","s","i","g","n","e","d">>, <<"v","o","i","d">>, <<"v","o","l","a","t","i","l","e">>,
    <<"w","h","i","l","e">>, <<"p","r","i","n","t">>, <<"i","n","p","u","t">>, <<"d","e","f">>,
    <<"c","l","a","s","s">>, <<"i","m","p","o","r","t">>, <<"f","r","o","m">>, <<"a","s">>,
    <<"t","r","y">>, <<"e","x","c","e","p","t">>, <<"f","i","n","a","l","l","y">>,
    <<"r","a","i","s","e">>, <<"w","i","t","h">>, <<"y","i","e","l","d">>,
    <<"l","a","m","b","d","a">>, <<"p","a","s","s">>, <<"T","r","u","e">>, <<"F","a","l","s","e">>,
    <<"N","o","n","e">>, <<"a","n","d">>, <<"o","r">>, <<"n","o","t">>, <<"i","n">>, <<"i","s">>,
    <<"e","l","i","f">>}

multi_char_ops_short == {
    <<"=", "=">>, <<"!", "=">>, <<"<", "=">>, <<">", "=">>, <<"&", "&">>, <<"|", "|">>,
    <<"+", "+">>, <<"-", "-">>, <<"+", "=">>, <<"-", "=">>, <<"*", "=">>, <<"/", "=">>,
    <<"<", "<">>, <<">", ">">>, <<"*", "*">>, <<"/", "/">>
}

multi_char_ops == {
    <<"=","=">>, <<"!","=">>, <<"<","=">>, <<">","=">>, <<"&","&">>, <<"|","|">>,
    <<"+","+">>, <<"-","-">>, <<"+","=">>, <<"-","=">>, <<"*","=">>, <<"/","=">>,
    <<"<","<">>, <<">",">">>, <<"-",">">>, <<"*","*">>, <<"/","/">>}

single_ops ==
    {"+", "-", "*", "/", "%", "=", "<", ">", "!", "&", "|", "^", "~", "?", ":", "@"}

delimiters == {"(", ")", "{", "}", "[", "]", ";", ",", "."}

(***************************************************************************)
(* The Token and Lexer objects.                                            *)
(***************************************************************************)
Token(token_type, value, line, column) ==
    [type |-> token_type, value |-> value, line |-> line, column |-> column]

Lexer(source) ==
    [source |-> source, pos |-> 0, line |-> 1, column |-> 1, tokens |-> <<>>]

\* s + c on str: a TypeError when c is None, which then propagates.
str_add(s, c) == IF s = TypeError \/ c = None THEN TypeError ELSE Append(s, c)

current_char(L) == IF L.pos < Len(L.source) THEN L.source[L.pos + 1] ELSE None

peek_char(L) == IF L.pos + 1 < Len(L.source) THEN L.source[L.pos + 2] ELSE None

advance_no_reset(L) ==
    IF current_char(L) = "\n"
    THEN [L EXCEPT !.line = @ + 1, !.column = @ + 1, !.pos = @ + 1]
    ELSE [L EXCEPT !.column = @ + 1, !.pos = @ + 1]

advance(L) ==
    IF current_char(L) = "\n"
    THEN [L EXCEPT !.line = @ + 1, !.column = 1, !.pos = @ + 1]
    ELSE [L EXCEPT !.column = @ + 1, !.pos = @ + 1]

RECURSIVE skip_whitespace_isspace(_)
skip_whitespace_isspace(L) ==
    IF current_char(L) # None /\ current_char(L) \in {" ", "\t", "\r", "\n"}
    THEN skip_whitespace_isspace(advance(L))
    ELSE L

RECURSIVE skip_whitespace(_)
skip_whitespace(L) ==
    IF current_char(L) # None /\ current_char(L) \in {" ", "\t", "\r"}
    THEN skip_whitespace(advance(L))
    ELSE L

add_token(L, token_type, value, line, column) ==
    [L EXCEPT !.tokens = Append(@, Token(token_type, value, line, column))]


(***************************************************************************)
(* The sub-scanners.  Each loop operator returns the Lexer after the loop  *)
(* together with the loop's accumulated text.                              *)
(***************************************************************************)
RECURSIVE number_loop(_, _, _)
number_loop(L, num_str, is_float) ==
    LET c == current_char(L) IN
    IF c # None /\ (isdigit(c) \/ c = ".")
    THEN IF c = "." /\ is_float
         THEN [lx |-> L, num_str |-> num_str, is_float |-> is_float]
         ELSE number_loop(advance(L), str_add(num_str, c), is_float \/ c = ".")
    ELSE [lx |-> L, num_str |-> num_str, is_float |-> is_float]

lex_number(L) ==
    LET r == number_loop(L, <<>>, FALSE)
        token_type == IF r.is_float THEN "FLOAT" ELSE "INTEGER"
    IN  add_token(r.lx, token_type, r.num_str, L.line, L.column)

RECURSIVE identifier_loop(_, _)
identifier_loop(L, word) ==
    LET c == current_char(L) IN
    IF c # None /\ (isalnum(c) \/ c = "_")
    THEN identifier_loop(advance(L), str_add(word, c))
    ELSE [lx |-> L, word |-> word]

in_keywords_prefix(word) ==
    \E kw \in KEYWORD : Len(kw) <= Len(word) /\ SubSeq(word, 1, Len(kw)) = kw

in_keywords(word) == word \in KEYWORD

lex_identifier(L) ==
    LET r == identifier_loop(L, <<>>) IN
    IF in_keywords(r.word)
    THEN add_token(r.lx, "KEYWORD", r.word, L.line, L.column)
    ELSE add_token(r.lx, "IDENTIFIER", r.word, L.line, L.column)

string_body_no_escape(L, string_val) ==
    [lx |-> advance(L), val |-> str_add(string_val, current_char(L))]

string_body_unguarded(L, string_val) ==
    LET e == IF current_char(L) = "\\"
             THEN [lx |-> advance(L), val |-> str_add(string_val, current_char(L))]
             ELSE [lx |-> L, val |-> string_val]
    IN  [lx |-> advance(e.lx), val |-> str_add(e.val, current_char(e.lx))]

\* One pass of the loop body of lex_string: the escape test, then the copy.
string_body(L, string_val) ==
    LET e == IF current_char(L) = "\\"
             THEN [lx |-> advance(L), val |-> str_add(string_val, current_char(L))]
             ELSE [lx |-> L, val |-> string_val]
    IN  IF current_char(e.lx) # None
        THEN [lx |-> advance(e.lx), val |-> str_add(e.val, current_char(e.lx))]
        ELSE e

RECURSIVE string_loop(_, _, _)
string_loop(L, string_val, quote_char) ==
    IF current_char(L) # None /\ current_char(L) # quote_char
    THEN LET b == string_body(L, string_val)
         IN  string_loop(b.lx, b.val, quote_char)
    ELSE [lx |-> L, val |-> string_val]

lex_string_no_close(L, quote_char) ==
    LET r == string_loop(advance(L), <<quote_char>>, quote_char)
        c == IF current_char(r.lx) = quote_char
             THEN [lx |-> advance(r.lx), val |-> r.val]
             ELSE r
    IN  add_token(c.lx, "STRING", c.val, L.line, L.column)

lex_string(L, quote_char) ==
    LET r == string_loop(advance(L), <<quote_char>>, quote_char)
        c == IF current_char(r.lx) = quote_char
             THEN [lx |-> advance(r.lx), val |-> str_add(r.val, current_char(r.lx))]
             ELSE r
    IN  add_token(c.lx, "STRING", c.val, L.line, L.column)

RECURSIVE single_comment_loop(_, _)
single_comment_loop(L, comment) ==
    IF current_char(L) # None /\ current_char(L) # "\n"
    THEN single_comment_loop(advance(L), str_add(comment, current_char(L)))
    ELSE [lx |-> L, comment |-> comment]

lex_single_comment_eat(L) ==
    LET r == single_comment_loop(L, <<>>)
        e == IF current_char(r.lx) = "\n"
             THEN [lx |-> advance(r.lx), comment |-> str_add(r.comment, "\n")]
             ELSE r
    IN  add_token(e.lx, "COMMENT", e.comment, L.line, L.column)

lex_single_comment(L) ==
    LET r == single_comment_loop(L, <<>>)
    IN  add_token(r.lx, "COMMENT", r.comment, L.line, L.column)

RECURSIVE multi_comment_loop_star(_, _)
multi_comment_loop_star(L, comment) ==
    IF current_char(L) # None
    THEN IF current_char(L) = "*" /\ peek_char(L) \in {"/", None}
         THEN [lx |-> advance(advance(L)), comment |-> comment \o <<"*", "/">>]
         ELSE multi_comment_loop_star(advance(L), str_add(comment, current_char(L)))
    ELSE [lx |-> L, comment |-> comment]

RECURSIVE multi_comment_loop(_, _)
multi_comment_loop(L, comment) ==
    IF current_char(L) # None
    THEN IF current_char(L) = "*" /\ peek_char(L) = "/"
         THEN [lx |-> advance(advance(L)), comment |-> comment \o <<"*", "/">>]
         ELSE multi_comment_loop(advance(L), str_add(comment, current_char(L)))
    ELSE [lx |-> L, comment |-> comment]

lex_multi_comment_overlap(L) ==
    LET r == multi_comment_loop(advance(L), <<"/">>)
    IN  add_token(r.lx, "COMMENT", r.comment, L.line, L.column)

lex_multi_comment(L) ==
    LET r == multi_comment_loop(advance(advance(L)), <<"/", "*">>)
    IN  add_token(r.lx, "COMMENT", r.comment, L.line, L.column)

RECURSIVE preprocessor_loop(_, _)
preprocessor_loop(L, directive) ==
    IF current_char(L) # None /\ current_char(L) # "\n"
    THEN preprocessor_loop(advance(L), str_add(directive, current_char(L)))
    ELSE [lx |-> L, directive |-> directive]

lex_preprocessor(L) ==
    LET r == preprocessor_loop(L, <<>>)
    IN  add_token(r.lx, "PREPROCESSOR", r.directive, L.line, L.column)

lex_newline_stuck(L) == add_token(L, "NEWLINE", <<"\\", "n">>, L.line, L.column)

lex_newline_late(L) ==
    LET A == advance(L) IN add_token(A, "NEWLINE", <<"\\", "n">>, A.line, A.column)

lex_newline(L) == advance(add_token(L, "NEWLINE", <<"\\", "n">>, L.line, L.column))

(***************************************************************************)
(* The dispatch of Lexer.tokenize: branch(L) is the first test of the      *)
(* if-chain that holds at the cursor (after skip_whitespace), body(L, b)   *)
(* is what that branch executes.                                           *)
(***************************************************************************)
branch_single_first(L) ==
    LET ch == current_char(L) IN
    IF ch = None THEN "break"
    ELSE IF ch = "\n" THEN "newline"
    ELSE IF ch = "#" THEN "preprocessor"
    ELSE IF ch = "/" /\ peek_char(L) = "/" THEN "single_comment"
    ELSE IF ch = "/" /\ peek_char(L) = "*" THEN "multi_comment"
    ELSE IF ch = "#" THEN "python_comment"
    ELSE IF isdigit(ch) THEN "number"
    ELSE IF isalpha(ch) \/ ch = "_" THEN "identifier"
    ELSE IF ch \in {"\"", "'"} THEN "string"
    ELSE IF ch \in single_ops THEN "single_op"
    ELSE IF peek_char(L) # None /\ <<ch, peek_char(L)>> \in multi_char_ops THEN "multi_char_op"
    ELSE IF ch \in delimiters THEN "delimiter"
    ELSE "unknown"

branch_comment_first(L) ==
    LET ch == current_char(L) IN
    IF ch = None THEN "break"
    ELSE IF ch = "\n" THEN "newline"
    ELSE IF ch = "/" /\ peek_char(L) = "/" THEN "single_comment"
    ELSE IF ch = "/" /\ peek_char(L) = "*" THEN "multi_comment"
    ELSE IF ch = "#" THEN "python_comment"
    ELSE IF ch = "#" THEN "preprocessor"
    ELSE IF isdigit(ch) THEN "number"
    ELSE IF isalpha(ch) \/ ch = "_" THEN "identifier"
    ELSE IF ch \in {"\"", "'"} THEN "string"
    ELSE IF peek_char(L) # None /\ <<ch, peek_char(L)>> \in multi_char_ops THEN "multi_char_op"
    ELSE IF ch \in single_ops THEN "single_op"
    ELSE IF ch \in delimiters THEN "delimiter"
    ELSE "unknown"

branch(L) ==
    LET ch == current_char(L) IN
    IF ch = None THEN "break"
    ELSE IF ch = "\n" THEN "newline"
    ELSE IF ch = "#" THEN "preprocessor"
    ELSE IF ch = "/" /\ peek_char(L) = "/" THEN "single_comment"
    ELSE IF ch = "/" /\ peek_char(L) = "*" THEN "multi_comment"
    ELSE IF ch = "#" THEN "python_comment"
    ELSE IF isdigit(ch) THEN "number"
    ELSE IF isalpha(ch) \/ ch = "_" THEN "identifier"
    ELSE IF ch \in {"\"", "'"} THEN "string"
    ELSE IF peek_char(L) # None /\ <<ch, peek_char(L)>> \in multi_char_ops THEN "multi_char_op"
    ELSE IF ch \in single_ops THEN "single_op"
    ELSE IF ch \in delimiters THEN "delimiter"
    ELSE "unknown"

multi_char_operator(L) ==
    advance(advance(add_token(L, "OPERATOR", <<current_char(L), peek_char(L)>>,
                              L.line, L.column)))

single_operator(L) ==
    advance(add_token(L, "OPERATOR", <<current_char(L)>>, L.line, L.column))

delimiter(L) ==
    advance(add_token(L, "DELIMITER", <<current_char(L)>>, L.line, L.column))

unknown_skip(L) == advance(L)

unknown(L) ==
    advance(add_token(L, "UNKNOWN", <<current_char(L)>>, L.line, L.column))

body(L, b) ==
    CASE b = "break" -> L
      [] b = "newline" -> lex_newline(L)
      [] b = "preprocessor" -> lex_preprocessor(L)
      [] b = "single_comment" -> lex_single_comment(L)
      [] b = "multi_comment" -> lex_multi_comment(L)
      [] b = "python_comment" -> lex_single_comment(L)
      [] b = "number" -> lex_number(L)
      [] b = "identifier" -> lex_identifier(L)
      [] b = "string" -> lex_string(L, current_char(L))
      [] b = "multi_char_op" -> multi_char_operator(L)
      [] b = "single_op" -> single_operator(L)
      [] b = "delimiter" -> delimiter(L)
      [] b = "unknown" -> unknown(L)

\* One pass of the while loop of tokenize, entered with pos < len(source).
iteration(L) == LET W == skip_whitespace(L) IN body(W, branch(W))

\* The test of the while loop of tokenize.
loop_test_short(L) == L.pos < Len(L.source) - 1

loop_test(L) == L.pos < Len(L.source)

\* The whole call: the while loop of tokenize run to its return.
RECURSIVE tokenize_loop(_)
tokenize_loop(L) ==
    IF loop_test(L)
    THEN LET W == skip_whitespace(L) IN
         IF branch(W) = "break" THEN W ELSE tokenize_loop(body(W, branch(W)))
    ELSE L

tokenize(L) == tokenize_loop(L).tokens

\* An exception left a str operation inside the pass.
raised(L) == \E k \in 1..Len(L.tokens) : L.tokens[k].value = TypeError


(***************************************************************************)
(* The sources explored: every string up to a bound over small alphabets   *)
(* that hold a trigger of every branch, and the inputs the documentation   *)
(* and the demo of main() use.                                             *)
(***************************************************************************)
Strings(A, n) == UNION {[1..k -> A] : k \in 0..n}

Sigma == {"\n", " ", "#", "/", "*", "1", "a", "\"", ".", "$"}
SigmaNum == {"3", "1", ".", "a", " "}
SigmaOp == {"x", "<", "=", "+", "1"}
SigmaStr == {"\"", "'", "\\", "a", "\n"}
SigmaCmt == {"/", "*", "a", "\n", "#"}
SigmaKw == {"i", "n", "t", "f", "I", "1", "_", " "}
Sigma2 == {"a", "\n", " ", "+"}
SigmaUni == {"é", "²", "½", "U+0663", "1", "a", "_", ".", " "}
SigmaPair == {"=", "!", "<", ">", "&", "|", "+", "-", "*", "/"}

Ex_float ==
    <<"3", ".", "1", ".", "4">>

Ex_shift ==
    <<"x", "<", "<", "=", "1">>

Ex_plus ==
    <<"+", "+", "+">>

Ex_unknown ==
    <<"$">>

Ex_int1 ==
    <<"i", "n", "t", "1">>

Ex_If ==
    <<"I", "f">>

Ex_line_comment ==
    <<"/", "/", " ", "h", "i", "\n", "x">>

Ex_open_comment ==
    <<"/", "*", " ", "a", "b", "c">>

Ex_hello ==
    <<"\"", "H", "e", "l", "l", "o", ",", " ", "W", "o", "r", "l", "d", "!", "\"">>

Ex_block ==
    <<"/", "*", "\n", "*", "/", " ", "a">>

Ex_include ==
    <<"#", "i", "n", "c", "l", "u", "d", "e", " ", "<", "s", "t", "d", "i", "o", ".", "h", ">", "\n">>

Ex_cond ==
    <<"i", "f", " ", "(", "x", " ", ">", "=", " ", "5", " ", "&", "&", " ", "p", "i", " ", "!", "=", " ", "0", ")", " ", "{">>

Ex_printf ==
    <<"\t", "p", "r", "i", "n", "t", "f", "(", "\"", "%", "s", "\\", "n", "\"", ",", " ", "m", "s", "g", ")", ";", "\r", "\n">>

Ex_all ==
    <<"#", "d", "\n", "/", "/", "c", "\n", "/", "*", "*", "/", " ", "1", ".", "5", " ", "_", "a", " ", "'", "b", "'", " ", "*", "*", " ", "*", " ", ";", " ", "$", " ">>

Ex_crlf ==
    <<"x", " ", "=", " ", "1", ";", "\r", "\n", "\t", "y", " ", "=", " ", "2", ";", "\r", "\n">>

Ex_words ==
    <<"i", "n", "t", " ", "i", "n", "t", "1", " ", "I", "f", " ", "i", "f", "_", " ", "_", "i", "f", " ", "i", "f">>

Ex_overlap ==
    <<"/", "*", "/", "*", "/", "a">>

Examples ==
    {Ex_overlap, Ex_float, Ex_shift, Ex_plus, Ex_unknown, Ex_int1, Ex_If, Ex_line_comment,
     Ex_open_comment, Ex_hello, Ex_block, Ex_include, Ex_cond, Ex_printf, Ex_all, Ex_crlf, Ex_words}

Sources ==
    Strings(Sigma, MaxLen) \cup Strings(SigmaNum, MaxFamLen) \cup Strings(SigmaOp, MaxFamLen)
        \cup Strings(SigmaStr, MaxFamLen) \cup Strings(SigmaCmt, MaxFamLen)
        \cup Strings(SigmaKw, MaxKwLen) \cup Strings(SigmaPair, MaxPairLen)
        \cup Strings(SigmaUni, MaxUniLen) \cup Examples

Sources2 == Strings(Sigma2, MaxLen2) \cup {Ex_all, Ex_shift, Ex_line_comment}

(***************************************************************************)
(* The consumers of the token list: the /api/lex handler of src/api.py and *)
(* display_tokens of the command line.                                     *)
(***************************************************************************)
TokenOut(type, value, line, column) ==
    [type |-> type, value |-> value, line |-> line, column |-> column]

SourceIn(code) == [code |-> code]

response_no_comment(tokens) ==
    LET kept == SelectSeq(tokens, LAMBDA t : t.type \notin {"NEWLINE", "COMMENT"})
    IN  [j \in 1..Len(kept) |->
            TokenOut(kept[j].type, kept[j].value, kept[j].line, kept[j].column)]

\* The list comprehension the handler returns.
response(tokens) ==
    LET kept == SelectSeq(tokens, LAMBDA t : t.type # "NEWLINE")
    IN  [j \in 1..Len(kept) |->
            TokenOut(kept[j].type, kept[j].value, kept[j].line, kept[j].column)]

lex(source) == response(tokenize(Lexer(source.code)))

\* The characters of a token type name.
chars(type) ==
    CASE type = "KEYWORD" -> <<"K", "E", "Y", "W", "O", "R", "D">>
      [] type = "IDENTIFIER" -> <<"I", "D", "E", "N", "T", "I", "F", "I", "E", "R">>
      [] type = "INTEGER" -> <<"I", "N", "T", "E", "G", "E", "R">>
      [] type = "FLOAT" -> <<"F", "L", "O", "A", "T">>
      [] type = "STRING" -> <<"S", "T", "R", "I", "N", "G">>
      [] type = "COMMENT" -> <<"C", "O", "M", "M", "E", "N", "T">>
      [] type = "PREPROCESSOR" -> <<"P", "R", "E", "P", "R", "O", "C", "E", "S", "S", "O", "R">>
      [] type = "NEWLINE" -> <<"N", "E", "W", "L", "I", "N", "E">>
      [] type = "OPERATOR" -> <<"O", "P", "E", "R", "A", "T", "O", "R">>
      [] type = "DELIMITER" -> <<"D", "E", "L", "I", "M", "I", "T", "E", "R">>
      [] type = "UNKNOWN" -> <<"U", "N", "K", "N", "O", "W", "N">>

\* The format specification :<w : left-justified in a field of w characters.
ljust(s, w) == IF Len(s) >= w THEN s ELSE s \o [j \in 1..(w - Len(s)) |-> " "]

\* The decimal digits of a natural number.
RECURSIVE str(_)
str(n) ==
    LET d == <<"0", "1", "2", "3", "4", "5", "6", "7", "8", "9">>[(n % 10) + 1]
    IN  IF n < 10 THEN <<d>> ELSE Append(str(n \div 10), d)

\* Token.__str__: the row print(token) writes.
Token_str(t) ==
    <<"|", " ">> \o ljust(chars(t.type), 16) \o <<" ", "|", " ">> \o ljust(t.value, 30)
        \o <<" ", "|", " ", "L", "n", " ">> \o ljust(str(t.line), 4)
        \o <<" ", "C", "o", "l", " ">> \o ljust(str(t.column), 4) \o <<" ", "|">>

\* type_count[key] = type_count.get(key, 0) + 1
dict_inc(d, key) ==
    [x \in DOMAIN d \cup {key} |->
        IF x = key THEN (IF key \in DOMAIN d THEN d[key] ELSE 0) + 1 ELSE d[x]]

\* sum(type_count.values())
RECURSIVE dict_sum(_)
dict_sum(d) ==
    IF DOMAIN d = {} THEN 0
    ELSE LET x == CHOOSE x \in DOMAIN d : TRUE
         IN  d[x] + dict_sum([y \in DOMAIN d \ {x} |-> d[y]])

\* The loop of display_tokens over tokens[k..]: the rows printed so far and
\* the count by type.
RECURSIVE display_loop(_, _, _)
display_loop(tokens, k, acc) ==
    IF k > Len(tokens) THEN acc
    ELSE IF tokens[k].type = "NEWLINE" THEN display_loop(tokens, k + 1, acc)
    ELSE display_loop(tokens, k + 1,
            [printed |-> Append(acc.printed, Token_str(tokens[k])),
             type_count |-> dict_inc(acc.type_count, tokens[k].type)])

\* The token rows display_tokens prints, its count by type and the total it
\* prints after the rows.
display_tokens(tokens) ==
    LET r == display_loop(tokens, 1, [printed |-> <<>>, type_count |-> <<>>])
    IN  [printed |-> r.printed, type_count |-> r.type_count, total |-> dict_sum(r.type_count)]

NoOutput == [consumer |-> "none"]

(***************************************************************************)
(* The state machine.  A step is one pass of the while loop of tokenize of *)
(* one Lexer object, named after the branch of the if-chain it takes.      *)
(***************************************************************************)
\* self.<field> = ...: the fields assigned belong to the object self alone.
self_update_shared(lx, self, L) ==
    [i \in DOMAIN lx |-> IF i = self THEN L ELSE [lx[i] EXCEPT !.tokens = L.tokens]]

self_update(lx, self, L) == [lx EXCEPT ![self] = L]

InitOf(ids, srcs) ==
    /\ lexer \in [ids -> {Lexer(s) : s \in srcs}]
    /\ status = [i \in ids |-> "run"]
    /\ span = [i \in ids |-> <<>>]
    /\ ws = [i \in ids |-> {}]
    /\ out = [i \in ids |-> NoOutput]

Init == InitOf({1}, Sources)

Init2 == InitOf({1, 2}, Sources2)

Pass(self, b) ==
    /\ status[self] = "run"
    /\ loop_test(lexer[self])
    /\ LET L == lexer[self]
           W == skip_whitespace(L)
           R == body(W, b)
       IN  /\ branch(W) = b
           /\ lexer' = self_update(lexer, self, R)
           /\ status' = [status EXCEPT ![self] =
                            IF raised(R) THEN "raised"
                            ELSE IF b = "break" THEN "done" ELSE "run"]
           /\ span' = [span EXCEPT ![self] =
                            IF b = "break" THEN @
                            ELSE Append(@, [start |-> W.pos, end |-> R.pos])]
           /\ ws' = [ws EXCEPT ![self] = @ \cup (L.pos .. W.pos - 1)]
           /\ UNCHANGED out

Newline(self) == Pass(self, "newline")
Preprocessor(self) == Pass(self, "preprocessor")
SingleComment(self) == Pass(self, "single_comment")
MultiComment(self) == Pass(self, "multi_comment")
Number(self) == Pass(self, "number")
Identifier(self) == Pass(self, "identifier")
String(self) == Pass(self, "string")
MultiCharOp(self) == Pass(self, "multi_char_op")
SingleOp(self) == Pass(self, "single_op")
Delimiter(self) == Pass(self, "delimiter")
Unknown(self) == Pass(self, "unknown")
Break(self) == Pass(self, "break")

\* The loop test fails: return self.tokens.
Return(self) ==
    /\ status[self] = "run"
    /\ ~loop_test(lexer[self])
    /\ status' = [status EXCEPT ![self] = "done"]
    /\ UNCHANGED <<lexer, span, ws, out>>

\* The /api/lex handler returns its list once lexer.tokenize() has returned.
LexReturn(self) ==
    /\ status[self] = "done"
    /\ out[self] = NoOutput
    /\ out' = [out EXCEPT ![self] = [consumer |-> "lex", response |-> response(lexer[self].tokens)]]
    /\ UNCHANGED <<lexer, status, span, ws>>

\* main passes the list that lexer.tokenize() returned to display_tokens.
DisplayTokens(self) ==
    /\ status[self] = "done"
    /\ out[self] = NoOutput
    /\ out' = [out EXCEPT ![self] = [consumer |-> "display_tokens"] @@ display_tokens(lexer[self].tokens)]
    /\ UNCHANGED <<lexer, status, span, ws>>

Next ==
    \/ \E self \in DOMAIN lexer : Newline(self)
    \/ \E self \in DOMAIN lexer : Preprocessor(self)
    \/ \E self \in DOMAIN lexer : SingleComment(self)
    \/ \E self \in DOMAIN lexer : MultiComment(self)
    \/ \E self \in DOMAIN lexer : Number(self)
    \/ \E self \in DOMAIN lexer : Identifier(self)
    \/ \E self \in DOMAIN lexer : String(self)
    \/ \E self \in DOMAIN lexer : MultiCharOp(self)
    \/ \E self \in DOMAIN lexer : SingleOp(self)
    \/ \E self \in DOMAIN lexer : Delimiter(self)
    \/ \E self \in DOMAIN lexer : Unknown(self)
    \/ \E self \in DOMAIN lexer : Break(self)
    \/ \E self \in DOMAIN lexer : Return(self)
    \/ \E self \in DOMAIN lexer : LexReturn(self)
    \/ \E self \in DOMAIN lexer : DisplayTokens(self)

Spec == Init /\ [][Next]_vars

\* A call of tokenize that has started keeps running until it returns: weak
\* fairness of Next.  Running is ENABLED <<Next>>_vars (a call that has not
\* returned or raised always has a pass or the return to take), so Fairness
\* is WF_vars(Next) with the enabling condition written out.
Running == \E i \in DOMAIN status : status[i] = "run"

Fairness == <>[]Running => []<><<Next>>_vars

LiveSpec == Init /\ [][Next]_vars /\ Fairness

\* Two Lexer objects whose calls of tokenize interleave pass by pass.
Spec2 == Init2 /\ [][Next]_vars


(***************************************************************************)
(* Properties.                                                             *)
(***************************************************************************)
Ids == DOMAIN lexer
Src(i) == lexer[i].source
Toks(i) == lexer[i].tokens
Done(i) == status[i] = "done"
Aligned(i) == Len(span[i]) = Len(Toks(i))
Text(i, k) == SubSeq(Src(i), span[i][k].start + 1, span[i][k].end)
Has(s, c) == \E o \in 1..Len(s) : s[o] = c
Count(s, c) == Cardinality({o \in 1..Len(s) : s[o] = c})
Whitespace == {" ", "\t", "\r"}

\* C1: every pass of the dispatch loop that starts with unconsumed input ends
\* with pos strictly greater, whichever branch it takes, and every call of
\* tokenize eventually returns.
C1_ProgressAndTermination ==
    /\ [][\A i \in Ids :
            (status[i] = "run" /\ lexer[i].pos < Len(Src(i)) /\ lexer'[i] # lexer[i])
                => lexer'[i].pos > lexer[i].pos]_vars
    /\ <>(\A i \in Ids : Done(i))

C1_Witness ==
    \E i \in Ids : Done(i) /\ Len(Toks(i)) >= 2 /\ ws[i] # {} /\ Has(Src(i), "\n")

RECURSIVE SpanSum(_, _)
SpanSum(sp, k) == IF k = 0 THEN 0 ELSE (sp[k].end - sp[k].start) + SpanSum(sp, k - 1)

\* C2: when tokenize returns, pos = len(source), and the spans of the tokens
\* together with the skipped space/tab/carriage-return offsets partition the
\* offsets of the source: each offset is in exactly one of them, and the span
\* lengths plus the number of skipped characters sum to len(source).
C2_Partition ==
    \A i \in Ids : Done(i) =>
        /\ lexer[i].pos = Len(Src(i))
        /\ Aligned(i)
        /\ \A o \in 0..(Len(Src(i)) - 1) :
              Cardinality({k \in 1..Len(span[i]) : span[i][k].start <= o /\ o < span[i][k].end})
                + (IF o \in ws[i] THEN 1 ELSE 0) = 1
        /\ \A o \in ws[i] : o < Len(Src(i)) /\ Src(i)[o + 1] \in Whitespace
        /\ SpanSum(span[i], Len(span[i])) + Cardinality(ws[i]) = Len(Src(i))

C2_Witness ==
    \E i \in Ids : Done(i) /\ Len(Toks(i)) >= 2 /\ Cardinality(ws[i]) >= 2
                     /\ \E k \in 1..Len(span[i]) : span[i][k].end - span[i][k].start >= 2

LexLess(a, b) == a.line < b.line \/ (a.line = b.line /\ a.column < b.column)

\* C3: tokens are listed in strictly increasing order of start offset, and
\* the (line, column) of each token is lexicographically strictly less than
\* that of the token after it.
C3_Ordering ==
    \A i \in Ids :
        /\ Aligned(i)
        /\ \A k \in 1..(Len(Toks(i)) - 1) :
              /\ span[i][k].start < span[i][k + 1].start
              /\ LexLess(Toks(i)[k], Toks(i)[k + 1])

C3_Witness ==
    \E i \in Ids : \E k \in 1..(Len(Toks(i)) - 1) :
        /\ Toks(i)[k].type \in {"STRING", "COMMENT"}
        /\ Has(Toks(i)[k].value, "\n")
        /\ Toks(i)[k + 1].line > Toks(i)[k].line

\* The 1-based line and column of offset n of source s, counted from the text.
LineOf(s, n) == 1 + Cardinality({o \in 1..n : s[o] = "\n"})
ColumnOf(s, n) ==
    LET nl == {o \in 1..n : s[o] = "\n"}
        last == IF nl = {} THEN 0 ELSE CHOOSE o \in nl : \A q \in nl : q <= o
    IN  1 + (n - last)

\* C4: the (line, column) of every token is the 1-based position of its first
\* character in the source, and the cursor's line and column are those of
\* offset pos; tab and carriage return count one column each.
C4_Position ==
    \A i \in Ids :
        /\ Aligned(i)
        /\ lexer[i].line = LineOf(Src(i), lexer[i].pos)
        /\ lexer[i].column = ColumnOf(Src(i), lexer[i].pos)
        /\ \A k \in 1..Len(Toks(i)) :
              /\ Toks(i)[k].line = LineOf(Src(i), span[i][k].start)
              /\ Toks(i)[k].column = ColumnOf(Src(i), span[i][k].start)

C4_Witness ==
    \E i \in Ids : \E k \in 1..Len(Toks(i)) :
        /\ Toks(i)[k].line >= 2 /\ Toks(i)[k].column >= 2
        /\ \E o \in 1..span[i][k].start : Src(i)[o] \in {"\t", "\r"}


\* source[a:b] of Python (0-based, end exclusive, cut at the end of s).
Slice(s, a, b) == SubSeq(s, a + 1, IF b < Len(s) THEN b ELSE Len(s))

ExactLexeme(i, k) ==
    LET t == Toks(i)[k]
        sp == span[i][k]
    IN  /\ Len(t.value) = sp.end - sp.start
        /\ t.value = Slice(Src(i), sp.start, sp.start + Len(t.value))

\* C5 as stated: the value of every token of every category, NEWLINE
\* included, is the substring of the source the token's rule consumed.
C5_Original ==
    \A i \in Ids : Aligned(i) /\ \A k \in 1..Len(Toks(i)) : ExactLexeme(i, k)

\* C5 amended: the value of every token other than NEWLINE is the substring
\* of the source its rule consumed; a NEWLINE token consumes the one newline
\* character and its value is the two characters backslash, n.
C5_ExactLexeme ==
    \A i \in Ids :
        /\ Aligned(i)
        /\ \A k \in 1..Len(Toks(i)) :
              IF Toks(i)[k].type = "NEWLINE"
              THEN /\ Toks(i)[k].value = <<"\\", "n">>
                   /\ Text(i, k) = <<"\n">>
              ELSE ExactLexeme(i, k)

C5_Witness ==
    \E i \in Ids :
        /\ Done(i)
        /\ \E k \in 1..Len(Toks(i)) : Toks(i)[k].type = "NEWLINE"
        /\ \E k \in 1..Len(Toks(i)) :
              /\ Toks(i)[k].type = "STRING"
              /\ Len(Toks(i)[k].value) >= 3
              /\ Toks(i)[k].value[Len(Toks(i)[k].value)] = Toks(i)[k].value[1]

\* The character at offset o of s (0-based) matches none of the category
\* rules: newline, '#', comment opener, digit, letter or underscore, quote,
\* two-character operator, single-character operator, delimiter.
Unmatched(s, o) ==
    LET ch == s[o + 1]
        nx == IF o + 1 < Len(s) THEN s[o + 2] ELSE None
    IN  /\ ch \notin {"\n", "#", "_", "\"", "'"}
        /\ ~(ch = "/" /\ nx \in {"/", "*"})
        /\ ch \notin Digits /\ ch \notin Letters
        /\ <<ch, nx>> \notin multi_char_ops
        /\ ch \notin single_ops \cup delimiters

C6_State ==
    \A i \in Ids :
        /\ status[i] # "raised"
        /\ Aligned(i)
        /\ \A k \in 1..Len(Toks(i)) :
              /\ Unmatched(Src(i), span[i][k].start) <=> Toks(i)[k].type = "UNKNOWN"
              /\ Toks(i)[k].type = "UNKNOWN" =>
                    /\ Toks(i)[k].value = <<Src(i)[span[i][k].start + 1]>>
                    /\ span[i][k].end = span[i][k].start + 1
        /\ (Done(i) /\ Src(i) = Ex_unknown) => Toks(i) = <<Token("UNKNOWN", <<"$">>, 1, 1)>>

\* C6: tokenize never raises and always returns; a pass that starts at a
\* character matching none of the category rules emits exactly one UNKNOWN
\* token whose value is that character and consumes that character only, and
\* UNKNOWN tokens arise in no other way; `$` yields one UNKNOWN token `$`.
C6_NoErrorOutcome == [](C6_State) /\ <>[](\A i \in Ids : Done(i))

C6_Witness ==
    \E i \in Ids :
        /\ Done(i)
        /\ Len(Toks(i)) >= 2
        /\ \E k \in 1..Len(Toks(i)) : Toks(i)[k].type = "UNKNOWN"
        /\ \E k \in 1..Len(Toks(i)) : Toks(i)[k].type = "STRING" /\ Len(Toks(i)[k].value) = 1

IdentChar(c) == c \in Letters \/ c \in Digits \/ c \in Numerics \/ c = "_"

\* C7: a pass that starts at a letter or underscore takes the maximal run of
\* letters, digits and underscores, and the token is KEYWORD iff the exact
\* text of the run is in the keyword set, IDENTIFIER otherwise; `int1` and
\* `If` are never KEYWORD.
C7_KeywordPartition ==
    \A i \in Ids :
        /\ Aligned(i)
        /\ \A k \in 1..Len(Toks(i)) :
              LET t == Toks(i)[k]
                  sp == span[i][k]
              IN  /\ (Src(i)[sp.start + 1] \in Letters \/ Src(i)[sp.start + 1] = "_")
                        <=> t.type \in {"KEYWORD", "IDENTIFIER"}
                  /\ t.type \in {"KEYWORD", "IDENTIFIER"} =>
                        /\ t.value = Text(i, k)
                        /\ \A o \in 1..Len(t.value) : IdentChar(t.value[o])
                        /\ sp.end = Len(Src(i)) \/ ~IdentChar(Src(i)[sp.end + 1])
                        /\ t.type = "KEYWORD" <=> t.value \in KEYWORD
                        /\ t.value \in {Ex_int1, Ex_If} => t.type = "IDENTIFIER"

C7_Witness ==
    \E i \in Ids :
        /\ Done(i)
        /\ \E k \in 1..Len(Toks(i)) : Toks(i)[k].type = "KEYWORD"
        /\ \E k \in 1..Len(Toks(i)) :
              /\ Toks(i)[k].type = "IDENTIFIER"
              /\ \E kw \in KEYWORD : /\ Len(kw) < Len(Toks(i)[k].value)
                                     /\ SubSeq(Toks(i)[k].value, 1, Len(kw)) = kw
        /\ \E k \in 1..Len(Toks(i)) : Toks(i)[k].value = Ex_If


\* C8: a call of tokenize yields the token list of its own source run alone,
\* whatever other Lexer object runs before it or interleaved with it, so two
\* calls on the same source yield identical token lists.
C8_Deterministic ==
    \A i \in Ids : Done(i) =>
        /\ Toks(i) = tokenize(Lexer(Src(i)))
        /\ \A j \in Ids : (Done(j) /\ Src(j) = Src(i)) => Toks(j) = Toks(i)

C8_Witness ==
    \E i \in Ids : \E j \in Ids \ {i} :
        /\ Done(i) /\ Done(j)
        /\ Src(i) = Src(j)
        /\ Len(Toks(i)) >= 2
        /\ \E k \in Ids : Done(k) /\ Src(k) = Ex_all

\* The character at offset o (0-based) of s, None at the end.
At(s, o) == IF o < Len(s) THEN s[o + 1] ELSE None

\* The decimal digits.
DecimalDigits == {"0", "1", "2", "3", "4", "5", "6", "7", "8", "9"}

\* C9: a pass that starts at a digit takes the maximal run of decimal digits
\* with at most one `.`; the token is INTEGER iff the run holds no `.`, FLOAT
\* otherwise, its value the exact run; a second `.` is left and is the next
\* token, a DELIMITER; `3.1.4` yields FLOAT "3.1", DELIMITER ".", INTEGER "4".
C9_Number ==
    \A i \in Ids :
        /\ Aligned(i)
        /\ \A k \in 1..Len(Toks(i)) :
              LET t == Toks(i)[k]
                  sp == span[i][k]
                  dots == Count(t.value, ".")
                  nx == At(Src(i), sp.end)
              IN  /\ (At(Src(i), sp.start) \in DecimalDigits) <=> t.type \in {"INTEGER", "FLOAT"}
                  /\ t.type \in {"INTEGER", "FLOAT"} =>
                        /\ t.value = Text(i, k)
                        /\ \A o \in 1..Len(t.value) : t.value[o] \in DecimalDigits \cup {"."}
                        /\ dots <= 1
                        /\ t.type = "INTEGER" <=> dots = 0
                        /\ nx \notin DecimalDigits
                        /\ nx = "." => dots = 1
                        /\ nx = "." =>
                              /\ Done(i) => k < Len(Toks(i))
                              /\ k < Len(Toks(i)) =>
                                    /\ Toks(i)[k + 1].type = "DELIMITER"
                                    /\ Toks(i)[k + 1].value = <<".">>
                                    /\ span[i][k + 1] = [start |-> sp.end, end |-> sp.end + 1]
        /\ (Done(i) /\ Src(i) = Ex_float) =>
              Toks(i) = <<Token("FLOAT", <<"3", ".", "1">>, 1, 1),
                          Token("DELIMITER", <<".">>, 1, 4),
                          Token("INTEGER", <<"4">>, 1, 5)>>

\* C10: an OPERATOR token is one or two characters of the source; where the
\* character at the start of a pass and the next one form a member of the
\* two-character table (and not a comment opener) the token is that
\* two-character operator, a single-character operator is emitted only where
\* they do not; `x<<=1` yields IDENTIFIER "x", OPERATOR "<<", OPERATOR "=",
\* INTEGER "1", and `+++` yields OPERATOR "++", OPERATOR "+".
C10_GreedyOperator ==
    \A i \in Ids :
        /\ Aligned(i)
        /\ \A k \in 1..Len(Toks(i)) :
              LET t == Toks(i)[k]
                  sp == span[i][k]
                  two == <<At(Src(i), sp.start), At(Src(i), sp.start + 1)>>
              IN  /\ t.type = "OPERATOR" =>
                        /\ t.value = Text(i, k)
                        /\ Len(t.value) \in {1, 2}
                        /\ Len(t.value) = 2 => t.value \in multi_char_ops
                        /\ Len(t.value) = 1 => t.value[1] \in single_ops /\ two \notin multi_char_ops
                  /\ (two \in multi_char_ops /\ two # <<"/", "/">>) =>
                        t.type = "OPERATOR" /\ t.value = two
                  /\ (two[1] \in single_ops /\ two \notin multi_char_ops /\ two # <<"/", "*">>) =>
                        t.type = "OPERATOR" /\ t.value = <<two[1]>>
        /\ (Done(i) /\ Src(i) = Ex_shift) =>
              Toks(i) = <<Token("IDENTIFIER", <<"x">>, 1, 1), Token("OPERATOR", <<"<", "<">>, 1, 2),
                          Token("OPERATOR", <<"=">>, 1, 4), Token("INTEGER", <<"1">>, 1, 5)>>
        /\ (Done(i) /\ Src(i) = Ex_plus) =>
              Toks(i) = <<Token("OPERATOR", <<"+", "+">>, 1, 1), Token("OPERATOR", <<"+">>, 1, 3)>>

C10_Witness ==
    \E i \in Ids :
        /\ Done(i)
        /\ \E k \in 1..(Len(Toks(i)) - 1) :
              /\ Toks(i)[k].type = "OPERATOR" /\ Len(Toks(i)[k].value) = 2
              /\ Toks(i)[k + 1].type = "OPERATOR" /\ Len(Toks(i)[k + 1].value) = 1
              /\ span[i][k + 1].start = span[i][k].end


(***************************************************************************)
(* Line comments.                                                          *)
(***************************************************************************)
StartsWith(s, o, a, b) == At(s, o) = a /\ At(s, o + 1) = b

\* C11: a token that starts at // is one COMMENT whose value runs from the //
\* up to, but not including, the next newline or the end of input; that
\* newline is the next token, a NEWLINE of its own at the offset where the
\* comment stopped, and a token that starts the following line is at line + 1,
\* column 1.  For the source // hi, newline, x the tokens are COMMENT "// hi",
\* NEWLINE, IDENTIFIER "x" at line 2, column 1.
C11_LineComment ==
    \A i \in Ids :
        /\ Aligned(i)
        /\ \A k \in 1..Len(span[i]) :
              StartsWith(Src(i), span[i][k].start, "/", "/") =>
                 LET e == span[i][k].end
                     t == Toks(i)[k]
                 IN  /\ t.type = "COMMENT"
                     /\ t.value = Text(i, k)
                     /\ ~Has(t.value, "\n")
                     /\ At(Src(i), e) \in {None, "\n"}
                     /\ At(Src(i), e) = None => k = Len(Toks(i))
                     /\ At(Src(i), e) = "\n" =>
                           /\ Done(i) => k < Len(Toks(i))
                           /\ k < Len(Toks(i)) =>
                                 /\ Toks(i)[k + 1].type = "NEWLINE"
                                 /\ span[i][k + 1] = [start |-> e, end |-> e + 1]
                                 /\ Toks(i)[k + 1].line = t.line
                                 /\ Toks(i)[k + 1].column = t.column + Len(t.value)
                           /\ (k + 1 < Len(Toks(i)) /\ span[i][k + 2].start = e + 1) =>
                                 /\ Toks(i)[k + 2].line = t.line + 1
                                 /\ Toks(i)[k + 2].column = 1
        /\ (Done(i) /\ Src(i) = Ex_line_comment) =>
              Toks(i) = << Token("COMMENT", <<"/", "/", " ", "h", "i">>, 1, 1),
                           Token("NEWLINE", <<"\\", "n">>, 1, 6),
                           Token("IDENTIFIER", <<"x">>, 2, 1) >>

C11_Witness ==
    \E i \in Ids : Done(i) /\ \E k \in 1..(Len(span[i]) - 2) :
        /\ StartsWith(Src(i), span[i][k].start, "/", "/")
        /\ Len(Toks(i)[k].value) >= 3
        /\ Toks(i)[k + 1].type = "NEWLINE"
        /\ span[i][k + 2].start = span[i][k].end + 1
        /\ Toks(i)[k + 2].column = 1

(***************************************************************************)
(* Unterminated strings and block comments.                                *)
(***************************************************************************)
Quotes == {"\"", "'"}

\* The number of consecutive backslashes of s that end right before offset o
\* and lie after offset a.
BackslashRun(s, a, o) ==
    LET B == {n \in 0..(o - a - 1) : \A m \in 1..n : s[o - m + 1] = "\\"}
    IN  CHOOSE n \in B : \A m \in B : m <= n

\* Offset o holds the quote that closes the string opened at offset a: the
\* same quote character, not escaped by a backslash.
Closes(s, a, o) ==
    /\ a < o /\ o < Len(s)
    /\ s[o + 1] = s[a + 1]
    /\ BackslashRun(s, a, o) % 2 = 0

\* Offset o holds the first character of a */ that closes the block comment
\* opened at offset a.
Ends(s, a, o) == a + 2 <= o /\ StartsWith(s, o, "*", "/")

\* C12: a string whose opening quote is never matched, or a block comment
\* whose /* has no later */, still gives exactly one token, STRING or
\* COMMENT, whose value is everything from the opener to the end of input;
\* it is the last token and no error is raised.  The source /* abc gives the
\* single token COMMENT "/* abc".
C12_Unterminated ==
    \A i \in Ids :
        /\ status[i] # "raised"
        /\ Aligned(i)
        /\ \A k \in 1..Len(span[i]) :
              LET a == span[i][k].start
                  t == Toks(i)[k]
                  n == Len(Src(i))
              IN  /\ (Src(i)[a + 1] \in Quotes /\ ~\E o \in 0..(n - 1) : Closes(Src(i), a, o)) =>
                        /\ t.type = "STRING"
                        /\ t.value = Slice(Src(i), a, n)
                        /\ span[i][k].end = n
                        /\ k = Len(Toks(i))
                  /\ (StartsWith(Src(i), a, "/", "*") /\ ~\E o \in 0..(n - 1) : Ends(Src(i), a, o)) =>
                        /\ t.type = "COMMENT"
                        /\ t.value = Slice(Src(i), a, n)
                        /\ span[i][k].end = n
                        /\ k = Len(Toks(i))
        /\ (Done(i) /\ Src(i) = Ex_open_comment) =>
              Toks(i) = << Token("COMMENT", Ex_open_comment, 1, 1) >>

\* An unterminated string that ends in a backslash, after an earlier token.
C12_Witness ==
    \E i \in Ids : Done(i) /\ Len(Toks(i)) >= 2 /\
        LET k == Len(Toks(i))
            a == span[i][k].start
        IN  /\ Src(i)[a + 1] \in Quotes
            /\ ~\E o \in 0..(Len(Src(i)) - 1) : Closes(Src(i), a, o)
            /\ Src(i)[Len(Src(i))] = "\\"
            /\ Toks(i)[k].value = Slice(Src(i), a, Len(Src(i)))

(***************************************************************************)
(* The consumers of the token list.                                        *)
(***************************************************************************)
Kept(i) == {k \in 1..Len(Toks(i)) : Toks(i)[k].type # "NEWLINE"}

\* The index in tokenize's output of the j-th token that is not a NEWLINE.
NthKept(i, j) == CHOOSE k \in Kept(i) : Cardinality({m \in Kept(i) : m <= k}) = j

\* The row shows the token's type, value, line and column in its four fields.
RowShows(row, t) ==
    LET v == 21 + (IF Len(t.value) > 30 THEN Len(t.value) ELSE 30)
    IN  /\ SubSeq(row, 3, 2 + Len(chars(t.type))) = chars(t.type)
        /\ SubSeq(row, 22, 21 + Len(t.value)) = t.value
        /\ SubSeq(row, v + 7, v + 6 + Len(str(t.line))) = str(t.line)
        /\ SubSeq(row, v + 16, v + 15 + Len(str(t.column))) = str(t.column)

\* C13: the consumers drop the NEWLINE tokens and nothing else.  The list the
\* /api/lex handler returns, and the rows display_tokens prints and counts,
\* are the tokens of tokenize's output that are not NEWLINE, in their order,
\* each with its type, value, line and column unchanged.
C13_ConsumersDropNewline ==
    \A i \in Ids :
        /\ out[i] # NoOutput => Done(i)
        /\ out[i].consumer = "lex" =>
              /\ Len(out[i].response) = Cardinality(Kept(i))
              /\ \A j \in 1..Len(out[i].response) :
                    LET t == Toks(i)[NthKept(i, j)]
                    IN  out[i].response[j] =
                          [type |-> t.type, value |-> t.value, line |-> t.line, column |-> t.column]
              /\ out[i].response = lex(SourceIn(Src(i)))
        /\ out[i].consumer = "display_tokens" =>
              /\ Len(out[i].printed) = Cardinality(Kept(i))
              /\ \A j \in 1..Len(out[i].printed) :
                    LET t == Toks(i)[NthKept(i, j)]
                    IN  out[i].printed[j] = Token_str(t) /\ RowShows(out[i].printed[j], t)
              /\ out[i].total = Cardinality(Kept(i))
              /\ DOMAIN out[i].type_count = {Toks(i)[k].type : k \in Kept(i)}
              /\ \A ty \in DOMAIN out[i].type_count :
                    out[i].type_count[ty] = Cardinality({k \in Kept(i) : Toks(i)[k].type = ty})

\* The handler has returned for a source with a NEWLINE token between two
\* other tokens, one of them a COMMENT.
C13_Witness ==
    \E i \in Ids :
        /\ out[i].consumer = "lex"
        /\ Len(out[i].response) >= 2
        /\ Len(out[i].response) < Len(Toks(i))
        /\ \E k \in 2..(Len(Toks(i)) - 1) :
              /\ Toks(i)[k].type = "NEWLINE"
              /\ Toks(i)[k - 1].type = "COMMENT"
              /\ Toks(i)[k + 1].type # "NEWLINE"

(***************************************************************************)
(* Strings.                                                                *)
(***************************************************************************)
\* C14: a token that starts at a quote character q is a STRING whose value is
\* the source text copied verbatim, backslashes and the characters after
\* them included.  It ends right after the first later q that is not escaped
\* by a backslash, that q being the last character of the value: an escaped
\* q does not end it, a q after an escaped backslash does, and the other
\* quote character never does.  With no such q it runs to the end of input.
C14_StringEnd ==
    \A i \in Ids :
        /\ Aligned(i)
        /\ \A k \in 1..Len(span[i]) :
              LET a == span[i][k].start
                  e == span[i][k].end
                  t == Toks(i)[k]
                  C == {o \in 0..(Len(Src(i)) - 1) : Closes(Src(i), a, o)}
              IN  Src(i)[a + 1] \in Quotes =>
                     /\ t.type = "STRING"
                     /\ t.value = Text(i, k)
                     /\ C # {} =>
                           /\ e - 1 \in C
                           /\ \A o \in C : e - 1 <= o
                           /\ t.value[Len(t.value)] = Src(i)[a + 1]
                           /\ lexer[i].pos >= e
                     /\ C = {} => e = Len(Src(i))
        /\ (Done(i) /\ Src(i) = Ex_hello) => Toks(i) = << Token("STRING", Ex_hello, 1, 1) >>

\* A closed string that holds an escaped quote, an escaped backslash or the
\* other quote character, with more input after it.
C14_Witness ==
    \E i \in Ids : Done(i) /\ \E k \in 1..Len(span[i]) :
        LET a == span[i][k].start
            e == span[i][k].end
        IN  /\ Src(i)[a + 1] \in Quotes
            /\ Closes(Src(i), a, e - 1)
            /\ e < Len(Src(i))
            /\ \E o \in (a + 1)..(e - 2) : Src(i)[o + 1] = "\\" /\ Src(i)[o + 2] = Src(i)[a + 1]

(***************************************************************************)
(* Block comments.                                                         *)
(***************************************************************************)
\* C15: a token that starts at /* is a COMMENT whose value is the source text
\* from the /* up to and including the first */ that begins at or after the
\* character following the /*, so that /*/ alone is not a complete comment;
\* the cursor resumes right after that */.  With no such */ the comment runs
\* to the end of input.
C15_BlockComment ==
    \A i \in Ids :
        /\ Aligned(i)
        /\ \A k \in 1..Len(span[i]) :
              LET a == span[i][k].start
                  e == span[i][k].end
                  t == Toks(i)[k]
                  C == {o \in 0..(Len(Src(i)) - 1) : Ends(Src(i), a, o)}
              IN  StartsWith(Src(i), a, "/", "*") =>
                     /\ t.type = "COMMENT"
                     /\ t.value = Text(i, k)
                     /\ SubSeq(t.value, 1, 2) = <<"/", "*">>
                     /\ C # {} =>
                           /\ e - 2 \in C
                           /\ \A o \in C : e - 2 <= o
                           /\ SubSeq(t.value, Len(t.value) - 1, Len(t.value)) = <<"*", "/">>
                           /\ Len(t.value) >= 4
                           /\ k < Len(span[i]) =>
                                 /\ span[i][k + 1].start >= e
                                 /\ \A o \in e..(span[i][k + 1].start - 1) : o \in ws[i]
                           /\ k = Len(span[i]) => \A o \in e..(lexer[i].pos - 1) : o \in ws[i]
                     /\ C = {} => e = Len(Src(i))
        /\ (Done(i) /\ Src(i) = <<"/", "*", "/">>) =>
              Toks(i) = << Token("COMMENT", <<"/", "*", "/">>, 1, 1) >>
        /\ (Done(i) /\ Src(i) = Ex_block) =>
              Toks(i) = << Token("COMMENT", <<"/", "*", "\n", "*", "/">>, 1, 1),
                           Token("IDENTIFIER", <<"a">>, 2, 4) >>

\* A closed block comment whose text begins with /*/ and is followed by
\* another token.
C15_Witness ==
    \E i \in Ids : Done(i) /\ \E k \in 1..(Len(span[i]) - 1) :
        LET a == span[i][k].start
            e == span[i][k].end
        IN  /\ StartsWith(Src(i), a, "/", "*")
            /\ Src(i)[a + 3] = "/"
            /\ Ends(Src(i), a, e - 2)
            /\ span[i][k + 1].start = e

(***************************************************************************)
(* Two-character operators.                                                *)
(***************************************************************************)
\* The two-character operator table as the specification lists it.
OperatorTable ==
    { <<"=", "=">>, <<"!", "=">>, <<"<", "=">>, <<">", "=">>, <<"&", "&">>, <<"|", "|">>,
      <<"+", "+">>, <<"-", "-">>, <<"+", "=">>, <<"-", "=">>, <<"*", "=">>, <<"/", "=">>,
      <<"<", "<">>, <<">", ">">>, <<"-", ">">>, <<"*", "*">>, <<"/", "/">> }

\* Token k of Lexer i starts at a member p of the table and is the OPERATOR
\* made of exactly those two characters.
PairOperator(i, k, p) ==
    /\ Toks(i)[k].type = "OPERATOR"
    /\ Toks(i)[k].value = p
    /\ span[i][k].end = span[i][k].start + 2

\* C16 as stated: for every member of the table, // included, a token that
\* starts where the current and the lookahead character form that member is
\* an OPERATOR consuming both.
C16_Original ==
    \A i \in Ids : \A k \in 1..Len(span[i]) :
        LET a == span[i][k].start
            p == <<At(Src(i), a), At(Src(i), a + 1)>>
        IN  p \in OperatorTable => PairOperator(i, k, p)

\* C16: for every member of the table other than //, a token that starts
\* where the current and the lookahead character form that member is one
\* OPERATOR whose value is the two characters, both consumed.  A token that
\* starts at // is a COMMENT, never an OPERATOR, and no OPERATOR has the
\* value //.
C16_TwoCharOperator ==
    \A i \in Ids :
        /\ Aligned(i)
        /\ \A k \in 1..Len(span[i]) :
              LET a == span[i][k].start
                  p == <<At(Src(i), a), At(Src(i), a + 1)>>
              IN  /\ p \in OperatorTable \ {<<"/", "/">>} => PairOperator(i, k, p)
                  /\ p = <<"/", "/">> => Toks(i)[k].type = "COMMENT"
                  /\ Toks(i)[k].value # <<"/", "/">> \/ Toks(i)[k].type = "COMMENT"

\* A two-character operator whose second character would pair with the
\* character after it, and a // in the same source.
C16_Witness ==
    \E i \in Ids : Done(i) /\ \E k \in 1..(Len(span[i]) - 1) :
        LET a == span[i][k].start
        IN  /\ PairOperator(i, k, <<"-", ">">>)
            /\ At(Src(i), a + 2) = "="
            /\ Toks(i)[k + 1].value = <<"=">>

(***************************************************************************)
(* The '#' character.                                                      *)
(***************************************************************************)
\* C17: a token that starts at # is always one PREPROCESSOR token whose value
\* runs from the # up to, but not including, the next newline or the end of
\* input; no pass of the dispatch loop takes the later # line-comment branch;
\* every COMMENT token's value begins with // or /*.
C17_HashIsPreprocessor ==
    \A i \in Ids :
        /\ Aligned(i)
        /\ (status[i] = "run" /\ loop_test(lexer[i])) =>
              branch(skip_whitespace(lexer[i])) # "python_comment"
        /\ \A k \in 1..Len(span[i]) :
              LET a == span[i][k].start
                  e == span[i][k].end
                  t == Toks(i)[k]
              IN  /\ Src(i)[a + 1] = "#" =>
                        /\ t.type = "PREPROCESSOR"
                        /\ t.value = Text(i, k)
                        /\ ~Has(t.value, "\n")
                        /\ At(Src(i), e) \in {None, "\n"}
                  /\ t.type = "PREPROCESSOR" => Src(i)[a + 1] = "#"
                  /\ t.type = "COMMENT" =>
                        /\ Len(t.value) >= 2
                        /\ SubSeq(t.value, 1, 2) \in {<<"/", "/">>, <<"/", "*">>}
        /\ (Done(i) /\ Src(i) = Ex_include) =>
              Toks(i) = << Token("PREPROCESSOR", SubSeq(Ex_include, 1, Len(Ex_include) - 1), 1, 1),
                           Token("NEWLINE", <<"\\", "n">>, 1, Len(Ex_include)) >>

\* A directive that holds a comment opener and stops before a newline, in a
\* source that also has a COMMENT token.
C17_Witness ==
    \E i \in Ids : Done(i) /\ \E k \in 1..Len(span[i]) :
        /\ Toks(i)[k].type = "PREPROCESSOR"
        /\ Has(Toks(i)[k].value, "/")
        /\ At(Src(i), span[i][k].end) = "\n"
        /\ \E m \in 1..Len(Toks(i)) : Toks(i)[m].type = "COMMENT"

(***************************************************************************)
(* Whitespace and newlines.                                                *)
(***************************************************************************)
\* Offset o lies inside the span of a STRING or COMMENT token, after its
\* first character.
InsideStringOrComment(i, o) ==
    \E k \in 1..Len(span[i]) :
        /\ Toks(i)[k].type \in {"STRING", "COMMENT"}
        /\ span[i][k].start < o /\ o < span[i][k].end

NewlineTokensAt(i, o) ==
    {k \in 1..Len(span[i]) : Toks(i)[k].type = "NEWLINE" /\ span[i][k].start = o}

\* C18: skip_whitespace consumes only space, tab and carriage return, never a
\* newline.  A token starts at a newline exactly when it is a NEWLINE token,
\* which covers that one character and carries its line and column; when
\* tokenize has returned, every newline of the source that is not inside a
\* string or block comment has exactly one NEWLINE token, and the others have
\* none.  A line comment or preprocessor directive stops before its newline,
\* and the next token is the NEWLINE at that offset.
C18_Newline ==
    \A i \in Ids :
        /\ Aligned(i)
        /\ \A o \in ws[i] : Src(i)[o + 1] \in Whitespace /\ Src(i)[o + 1] # "\n"
        /\ \A k \in 1..Len(span[i]) :
              LET a == span[i][k].start
                  e == span[i][k].end
                  t == Toks(i)[k]
              IN  /\ Src(i)[a + 1] = "\n" <=> t.type = "NEWLINE"
                  /\ t.type = "NEWLINE" =>
                        /\ e = a + 1
                        /\ t.line = LineOf(Src(i), a)
                        /\ t.column = ColumnOf(Src(i), a)
                  /\ (t.type = "PREPROCESSOR" \/ StartsWith(Src(i), a, "/", "/")) =>
                        /\ ~Has(Text(i, k), "\n")
                        /\ At(Src(i), e) = "\n" =>
                              /\ Done(i) => k < Len(span[i])
                              /\ k < Len(span[i]) => NewlineTokensAt(i, e) = {k + 1}
        /\ Done(i) =>
              \A o \in 0..(Len(Src(i)) - 1) :
                 Src(i)[o + 1] = "\n" =>
                    Cardinality(NewlineTokensAt(i, o)) = (IF InsideStringOrComment(i, o) THEN 0 ELSE 1)

\* Whitespace was skipped, a NEWLINE follows a directive and another follows
\* a line comment.
C18_Witness ==
    \E i \in Ids : Done(i) /\ ws[i] # {} /\
        \E k, m \in 1..(Len(span[i]) - 1) :
            /\ Toks(i)[k].type = "PREPROCESSOR" /\ Toks(i)[k + 1].type = "NEWLINE"
            /\ Toks(i)[m].type = "COMMENT" /\ Toks(i)[m + 1].type = "NEWLINE"

(***************************************************************************)
(* The cursor.                                                             *)
(***************************************************************************)
\* The cursor of Lexer i is within the source, and reading at or past the end
\* gives the end sentinel.
CursorInBounds(i) ==
    /\ 0 <= lexer[i].pos /\ lexer[i].pos <= Len(Src(i))
    /\ lexer[i].pos = Len(Src(i)) => current_char(lexer[i]) = None /\ peek_char(lexer[i]) = None
    /\ lexer[i].pos + 1 = Len(Src(i)) => current_char(lexer[i]) # None /\ peek_char(lexer[i]) = None
    /\ status[i] # "raised"

\* C19: the cursor always satisfies 0 <= pos <= len(source) and never
\* decreases from one pass to the next.  pos changes only by advance, one
\* offset at a time, so pos <= len(source) after a pass says that no advance
\* of the pass ran with the cursor at the end of input: not after a trailing
\* backslash of an unterminated string, not after /* at the end of input, not
\* after a two-character operator.  Reading the current or the next character
\* at the end gives the end sentinel and no call raises.
C19_Cursor ==
    /\ [](\A i \in Ids : CursorInBounds(i))
    /\ [][\A i \in Ids : lexer'[i].pos >= lexer[i].pos]_vars

\* tokenize returned for a source that ends with /* after an earlier token,
\* the cursor at the end of input.
C19_Witness ==
    \E i \in Ids :
        /\ Done(i) /\ Len(Toks(i)) >= 2
        /\ lexer[i].pos = Len(Src(i))
        /\ span[i][Len(span[i])] = [start |-> Len(Src(i)) - 2, end |-> Len(Src(i))]
        /\ Toks(i)[Len(Toks(i))].value = <<"/", "*">>
=============================================================================
